---- MODULE Spec2Model ----
(***************************************************************************)
(* Model of the gallery screen of src/App.tsx: the React state of App      *)
(* (images, selectedImage, modalVisible), the native alerts it has on      *)
(* screen, and the pickImage / takePhoto calls that are suspended at an    *)
(* await.  Every event handler runs to completion on the JS thread, so a   *)
(* handler, or the continuation of an async function after an await, is    *)
(* one action.  Handlers are callable whenever React has them mounted;     *)
(* their arguments come from the list that is currently rendered.          *)
(***************************************************************************)
EXTENDS Integers, Sequences, FiniteSets, TLC

\* ---- bounds of the model ------------------------------------------------
MaxId == 2        \* distinct results of the random id expression
MaxPick == 2      \* assets one library pick returns
MaxRecords == 2   \* records appended in one behaviour
MaxCalls == 2     \* pickImage / takePhoto calls in one behaviour
MaxAlerts == 2    \* native alerts on screen at once

\* ---- program constants --------------------------------------------------
SelectionLimit == 10

VARIABLES
    images,         \* useState<UploadedImage[]>([])
    selectedImage,  \* useState<UploadedImage | null>(null)
    modalVisible,   \* useState(false)
    alerts,         \* Alert.alert dialogs that are waiting for an answer
    calls,          \* pickImage / takePhoto invocations, in call order
    serial,         \* history: number of records appended so far
    removed,        \* history: serials of the records a Remove deleted
    launches,       \* history: number of picker / camera UIs launched
    lastEvent       \* history: the handler that ran last

vars == <<images, selectedImage, modalVisible, alerts, calls,
          serial, removed, launches, lastEvent>>

\* ---- values -------------------------------------------------------------
Null == [null |-> TRUE]

Min(a, b) == IF a < b THEN a ELSE b

\* Results of Math.random().toString(36).substr(2, 9): the expression can
\* yield any string of its range on any evaluation, the same one included.
IdSpace == 1..MaxId

\* Values Date.now() returns while a result is mapped.
Times == {1730000000}

\* Assets the platform returns; fileName and fileSize are optional
\* (<<>> when the platform does not report them).
Assets ==
    { [uri |-> "file:///a", fileName |-> <<"a.jpg">>, fileSize |-> <<>>],
      [uri |-> "file:///b", fileName |-> <<>>, fileSize |-> <<2097152>>] }

SeqsUpTo(S, n) == UNION { [1..k -> S] : k \in 0..n }

\* launchImageLibraryAsync: cancelled, or at most selectionLimit assets.
LibraryResults ==
    { [canceled |-> TRUE, assets |-> <<>>] } \cup
    { [canceled |-> FALSE, assets |-> a] :
        a \in SeqsUpTo(Assets, Min(SelectionLimit, MaxPick)) }

\* launchCameraAsync: cancelled, or the one captured asset.
CameraResults ==
    { [canceled |-> TRUE, assets |-> <<>>] } \cup
    { [canceled |-> FALSE, assets |-> <<a>>] : a \in Assets }

PermissionStatuses == {"granted", "denied", "undetermined"}

\* The handler that ran last: its name, the id and the call it was about
\* (0 when it has none) and what the platform or the user answered.
Event(op, id, call, status) ==
    [op |-> op, id |-> id, call |-> call, status |-> status]

\* ---- pure parts of the handlers ----------------------------------------
\* asset.fileName || `${prefix}_${Date.now()}.jpg`
NameOf(asset, prefix, now) ==
    IF asset.fileName # <<>> /\ asset.fileName[1] # ""
    THEN asset.fileName[1]
    ELSE prefix \o "_" \o ToString(now) \o ".jpg"

\* One UploadedImage literal; n is the history tag of the record.
NewImage(asset, prefix, id, now, n) ==
    [id |-> id, uri |-> asset.uri, name |-> NameOf(asset, prefix, now),
     size |-> asset.fileSize, n |-> n]

\* result.assets.map((asset) => ({...}))
MapAssets(assets, ids, nows, base) ==
    [i \in 1..Len(assets) |->
        NewImage(assets[i], "image", ids[i], nows[i], base + i)]

\* Fault: the append is built on the list the render captured.
AppendUpdateStale(prev, closure, newImages) == closure \o newImages

\* setImages((prev) => [...prev, ...newImages]); closure is the images
\* value the enclosing render captured, which the updater does not use.
AppendUpdate(prev, closure, newImages) == prev \o newImages

\* Fault: removal by index, splice(findIndex(...), 1), which drops the last
\* record when the id is not found.
FilterOutSplice(prev, id) ==
    IF \E i \in 1..Len(prev) : prev[i].id = id
    THEN SelectSeq(prev, LAMBDA img : img.id # id)
    ELSE SubSeq(prev, 1, Len(prev) - 1)

\* prev.filter((img) => img.id !== id)
FilterOut(prev, id) == SelectSeq(prev, LAMBDA img : img.id # id)

\* Fault: both buttons carry the removing onPress.
RemoveAlertOnPressAny(button, prev, id) == FilterOut(prev, id)

\* The buttons of the 'Remove Image' alert: only Remove has an onPress.
RemoveAlertOnPress(button, prev, id) ==
    IF button = "Remove" THEN FilterOut(prev, id) ELSE prev

\* !result.canceled && result.assets: an empty array is kept too.
PickKept(result) == ~result.canceled

\* !result.canceled && result.assets?.[0]
PhotoKept(result) == ~result.canceled /\ Len(result.assets) >= 1

\* Fault: the status is not looked at.
HasPermissionAlways(status) == TRUE

\* status !== 'granted' aborts the call
HasPermission(status) == status = "granted"

\* Fault: setSelectedImage(null) is missing.
CloseLightboxStateKeep(sel) == [selectedImage |-> sel, modalVisible |-> FALSE]

\* setSelectedImage(null); setModalVisible(false)
CloseLightboxState(sel) == [selectedImage |-> Null, modalVisible |-> FALSE]

\* setSelectedImage(image); setModalVisible(true)
OpenLightboxState(image) == [selectedImage |-> image, modalVisible |-> TRUE]

\* The alerts without the one that was answered.
RemoveAt(s, i) == SubSeq(s, 1, i - 1) \o SubSeq(s, i + 1, Len(s))

IdsOf(s) == { s[i].id : i \in 1..Len(s) }

SerialsOf(s) == { s[i].n : i \in 1..Len(s) }

\* A call that is suspended at one of its two awaits.
Pending(c) == c.pc \in {"permission", "launched"}

\* ---- initial state ------------------------------------------------------
Init ==
    /\ images = <<>>
    /\ selectedImage = Null
    /\ modalVisible = FALSE
    /\ alerts = <<>>
    /\ calls = <<>>
    /\ serial = 0
    /\ removed = {}
    /\ launches = 0
    /\ lastEvent = Event("init", 0, 0, "")

\* ---- actions ------------------------------------------------------------
\* showImageOptions: the 'Add Image' alert; its buttons hold pickImage and
\* takePhoto of the render that created them.
ShowImageOptions ==
    /\ Len(alerts) < MaxAlerts
    /\ alerts' = Append(alerts, [type |-> "add", id |-> 0, closure |-> images])
    /\ lastEvent' = Event("showImageOptions", 0, 0, "")
    /\ UNCHANGED <<images, selectedImage, modalVisible, calls,
                   serial, removed, launches>>

\* A button of the 'Add Image' alert starts pickImage or takePhoto, which
\* runs up to its first await (the permission request).
StartCall(i, kind) ==
    /\ alerts[i].type = "add"
    /\ Len(calls) < MaxCalls
    /\ alerts' = RemoveAt(alerts, i)
    /\ calls' = Append(calls, [kind |-> kind, pc |-> "permission",
                               closure |-> alerts[i].closure, added |-> <<>>])
    /\ lastEvent' = Event(kind, 0, Len(calls) + 1, "")
    /\ UNCHANGED <<images, selectedImage, modalVisible,
                   serial, removed, launches>>

\* 'Photo Library' button.
PickImage(i) == StartCall(i, "pickImage")

\* 'Camera' button.
TakePhoto(i) == StartCall(i, "takePhoto")

\* 'Cancel' button of the 'Add Image' alert.
CancelImageOptions(i) ==
    /\ alerts[i].type = "add"
    /\ alerts' = RemoveAt(alerts, i)
    /\ lastEvent' = Event("cancelImageOptions", 0, 0, "")
    /\ UNCHANGED <<images, selectedImage, modalVisible, calls,
                   serial, removed, launches>>

\* The permission request of call p resolves: on anything but 'granted'
\* the 'Permission Required' alert is shown and the call returns, otherwise
\* the picker or camera is launched and the call suspends again.
PermissionResolved(p, kind, status) ==
    /\ calls[p].kind = kind
    /\ calls[p].pc = "permission"
    /\ IF HasPermission(status)
       THEN /\ calls' = [calls EXCEPT ![p].pc = "launched"]
            /\ launches' = launches + 1
            /\ alerts' = alerts
       ELSE /\ Len(alerts) < MaxAlerts
            /\ calls' = [calls EXCEPT ![p].pc = "denied",
                                      ![p].closure = <<>>]
            /\ launches' = launches
            /\ alerts' = Append(alerts, [type |-> "permission", id |-> 0,
                                         closure |-> <<>>])
    /\ lastEvent' = Event("permission", 0, p, status)
    /\ UNCHANGED <<images, selectedImage, modalVisible, serial, removed>>

\* requestPermissions, awaited by pickImage.
RequestPermissions(p) ==
    \E status \in PermissionStatuses :
        PermissionResolved(p, "pickImage", status)

\* requestCameraPermissionsAsync, awaited by takePhoto.
RequestCameraPermissions(p) ==
    \E status \in PermissionStatuses :
        PermissionResolved(p, "takePhoto", status)

\* The continuation of call p after the picker or camera: newImages are the
\* records built from a kept result; a result that is not kept ends the call.
Resolve(p, kept, newImages) ==
    IF kept
    THEN /\ serial + Len(newImages) <= MaxRecords
         /\ images' = AppendUpdate(images, calls[p].closure, newImages)
         /\ calls' = [calls EXCEPT ![p].pc = "done", ![p].closure = <<>>,
                                   ![p].added = newImages]
         /\ serial' = serial + Len(newImages)
         /\ lastEvent' = Event("result", 0, p,
                IF calls[p].closure = images THEN "assets"
                ELSE "assets, list changed")
    ELSE /\ calls' = [calls EXCEPT ![p].pc = "canceled", ![p].closure = <<>>]
         /\ lastEvent' = Event("result", 0, p, "canceled")
         /\ UNCHANGED <<images, serial>>

\* launchImageLibraryAsync of call p resolves.
PickImageResult(p) ==
    /\ calls[p].kind = "pickImage"
    /\ calls[p].pc = "launched"
    /\ \E result \in LibraryResults :
         \E ids \in [1..Len(result.assets) -> IdSpace],
            nows \in [1..Len(result.assets) -> Times] :
            Resolve(p, PickKept(result),
                    MapAssets(result.assets, ids, nows, serial))
    /\ UNCHANGED <<selectedImage, modalVisible, alerts, removed, launches>>

\* launchCameraAsync of call p resolves.
TakePhotoResult(p) ==
    /\ calls[p].kind = "takePhoto"
    /\ calls[p].pc = "launched"
    /\ \E result \in CameraResults, id \in IdSpace, now \in Times :
         Resolve(p, PhotoKept(result),
                 IF result.assets = <<>> THEN <<>>
                 ELSE <<NewImage(result.assets[1], "photo", id, now,
                                 serial + 1)>>)
    /\ UNCHANGED <<selectedImage, modalVisible, alerts, removed, launches>>

\* OK button of a 'Permission Required' alert.
DismissPermissionAlert(i) ==
    /\ alerts[i].type = "permission"
    /\ alerts' = RemoveAt(alerts, i)
    /\ lastEvent' = Event("dismissPermissionAlert", 0, 0, "")
    /\ UNCHANGED <<images, selectedImage, modalVisible, calls,
                   serial, removed, launches>>

\* removeImage(image.id), pressed on a rendered card: shows the alert.
RemoveImage(id) ==
    /\ id \in IdsOf(images)
    /\ Len(alerts) < MaxAlerts
    /\ alerts' = Append(alerts, [type |-> "remove", id |-> id,
                                 closure |-> <<>>])
    /\ lastEvent' = Event("removeImage", id, 0, "")
    /\ UNCHANGED <<images, selectedImage, modalVisible, calls,
                   serial, removed, launches>>

\* A button of the 'Remove Image' alert is pressed.
RemoveAlertAnswer(i, button) ==
    /\ alerts[i].type = "remove"
    /\ alerts' = RemoveAt(alerts, i)
    /\ images' = RemoveAlertOnPress(button, images, alerts[i].id)
    /\ removed' = removed \cup (SerialsOf(images) \ SerialsOf(images'))
    /\ lastEvent' = Event(button, alerts[i].id, 0,
            IF alerts[i].id \in IdsOf(images) THEN "listed" ELSE "absent")
    /\ UNCHANGED <<selectedImage, modalVisible, calls, serial, launches>>

RemoveConfirmed(i) == RemoveAlertAnswer(i, "Remove")

RemoveCancelled(i) == RemoveAlertAnswer(i, "Cancel")

\* openLightbox(image), pressed on a rendered card.
OpenLightbox(k) ==
    /\ k \in 1..Len(images)
    /\ selectedImage' = OpenLightboxState(images[k]).selectedImage
    /\ modalVisible' = OpenLightboxState(images[k]).modalVisible
    /\ lastEvent' = Event("openLightbox", images[k].id, 0, "")
    /\ UNCHANGED <<images, alerts, calls, serial, removed, launches>>

\* closeLightbox: close button, overlay press or onRequestClose.
CloseLightbox ==
    /\ selectedImage' = CloseLightboxState(selectedImage).selectedImage
    /\ modalVisible' = CloseLightboxState(selectedImage).modalVisible
    /\ lastEvent' = Event("closeLightbox", 0, 0, "")
    /\ UNCHANGED <<images, alerts, calls, serial, removed, launches>>

Next ==
    \/ ShowImageOptions
    \/ \E i \in 1..Len(alerts) : PickImage(i)
    \/ \E i \in 1..Len(alerts) : TakePhoto(i)
    \/ \E i \in 1..Len(alerts) : CancelImageOptions(i)
    \/ \E p \in 1..Len(calls) : RequestPermissions(p)
    \/ \E p \in 1..Len(calls) : RequestCameraPermissions(p)
    \/ \E p \in 1..Len(calls) : PickImageResult(p)
    \/ \E p \in 1..Len(calls) : TakePhotoResult(p)
    \/ \E i \in 1..Len(alerts) : DismissPermissionAlert(i)
    \/ \E id \in IdSpace : RemoveImage(id)
    \/ \E i \in 1..Len(alerts) : RemoveConfirmed(i)
    \/ \E i \in 1..Len(alerts) : RemoveCancelled(i)
    \/ \E k \in 1..MaxRecords : OpenLightbox(k)
    \/ CloseLightbox

Spec == Init /\ [][Next]_vars

\* ---- properties --------------------------------------------------------
StateView == <<images, selectedImage, modalVisible>>

RECURSIVE Flatten(_)
Flatten(lists) ==
    IF lists = <<>> THEN <<>> ELSE Head(lists) \o Flatten(Tail(lists))

\* The asset a record was built from, as the picker identified it.
UrisOf(s) == [i \in 1..Len(s) |-> s[i].uri]

\* C1: whenever the viewer is open, selectedImage is a record whose id is
\* the id of a record that is in images.
ViewerShowsListedImage ==
    modalVisible =>
        /\ selectedImage # Null
        /\ selectedImage.id \in IdsOf(images)

\* C2: a confirmed removal of the record the viewer is open on closes the
\* viewer, clears selectedImage and leaves no record with that id in images.
RemovingViewedImageClosesViewer ==
    [][ ( /\ lastEvent'.op = "Remove"
          /\ modalVisible
          /\ selectedImage # Null
          /\ selectedImage.id = lastEvent'.id
          /\ selectedImage.id \in IdsOf(images) )
        => ( /\ modalVisible' = FALSE
             /\ selectedImage' = Null
             /\ lastEvent'.id \notin IdsOf(images') ) ]_vars

\* C3: as long as nothing has been removed, images is the concatenation, in
\* call order, of the asset lists of the calls that were granted and not
\* cancelled, each in the order the picker returned it.
ImagesAreResultsInCallOrder ==
    removed = {} =>
        /\ UrisOf(images) =
             Flatten([p \in 1..Len(calls) |-> UrisOf(calls[p].added)])
        /\ Len(images) = serial

\* C4: no two records of images have the same id.
NoDuplicateIds ==
    \A i, j \in 1..Len(images) : i # j => images[i].id # images[j].id

\* C5: pressing the remove button and answering Cancel both leave images,
\* selectedImage and modalVisible as they were; only Remove changes images.
CancelChangesNothing ==
    [][ lastEvent'.op \in {"removeImage", "Cancel"}
        => UNCHANGED StateView ]_vars

CancelKeepsListedImage ==
    /\ lastEvent.op = "Cancel"
    /\ lastEvent.status = "listed"
    /\ lastEvent.id \in IdsOf(images)

\* C6: a call that ends in a permission that is not granted or in a
\* cancelled picker leaves images, selectedImage and modalVisible as they
\* were; without the grant nothing is launched and the call has ended, and
\* a call that has ended does nothing more.
DenialAndCancelChangeNothing ==
    [][ /\ ( \/ lastEvent'.op = "permission" /\ lastEvent'.status # "granted"
             \/ lastEvent'.op = "result" /\ lastEvent'.status = "canceled" )
           => UNCHANGED StateView
        /\ (lastEvent'.op = "permission" /\ lastEvent'.status # "granted")
           => /\ launches' = launches
              /\ Len(calls') = Len(calls)
              /\ calls'[lastEvent'.call].pc = "denied"
        /\ \A p \in 1..Len(calls) :
              ~Pending(calls[p]) => calls'[p] = calls[p] ]_vars

DeniedWithImagesListed ==
    /\ lastEvent.op = "permission"
    /\ lastEvent.status = "denied"
    /\ images # <<>>
    /\ modalVisible

\* C7: at most one pickImage / takePhoto call is suspended at a time.
AtMostOnePendingCall ==
    Cardinality({ p \in 1..Len(calls) : Pending(calls[p]) }) <= 1

\* C8: a confirmed removal of an id that is not (any longer) in images
\* changes nothing, and after any confirmed removal a repeat of it would
\* change nothing.
RepeatedRemoveChangesNothing ==
    [][ lastEvent'.op = "Remove"
        => /\ lastEvent'.id \notin IdsOf(images) => UNCHANGED StateView
           /\ RemoveAlertOnPress("Remove", images', lastEvent'.id) = images'
      ]_vars

RemovedTwice ==
    /\ lastEvent.op = "Remove"
    /\ lastEvent.status = "absent"
    /\ images # <<>>

\* C9: the viewer is open exactly when an image is selected.
ViewerOpenIffSelected == modalVisible <=> selectedImage # Null

ViewerOpened ==
    /\ lastEvent.op = "openLightbox"
    /\ modalVisible
    /\ selectedImage # Null

\* C10: images holds exactly the records that were appended and not
\* removed, in the order they were appended, whatever happened while the
\* call that appended them was suspended.
NoUpdateLost ==
    /\ SerialsOf(images) = (1..serial) \ removed
    /\ \A i, j \in 1..Len(images) : i < j => images[i].n < images[j].n

AppendedAfterOtherCall ==
    /\ Len(calls) = 2
    /\ lastEvent.op = "result"
    /\ lastEvent.call = 1
    /\ lastEvent.status = "assets, list changed"
    /\ calls[1].added # <<>>
    /\ calls[2].added # <<>>
    /\ images = calls[2].added \o calls[1].added

====
